---------------------------- MODULE Spec2Model ----------------------------
(***************************************************************************)
(* A model of the pagerank-rs client library (src/src/lib.rs):             *)
(*   - PageRank::remove_trailing_slash, the normalisation of one domain;   *)
(*   - impl TryInto<PageRankFirst> for PageRank;                           *)
(*   - PageRank::rank, one asynchronous call split at its fallible steps   *)
(*     and its two await points, run by one caller or several at once.     *)
(* A string is a sequence of one-character strings; an API key is a        *)
(* sequence of bytes, since the header encoding decides on byte values.    *)
(***************************************************************************)
EXTENDS Integers, Sequences, FiniteSets, TLC

VARIABLES
    \* --- remove_trailing_slash applied once and twice to an input string
    npc, ns, nonce, ntwice,
    \* --- TryInto<PageRankFirst>
    cpc, cpr, cout,
    \* --- PageRank::rank, per call
    calls,      \* the calls the caller has made
    pc,         \* where each call stands
    domains,    \* argument `domains` (each already seen through as_ref())
    key,        \* argument `key`
    timeout,    \* argument `timeout`, in clock ticks
    headers,    \* local `headers`
    client,     \* local `client`
    query,      \* local `query`
    requests,   \* the requests the call has handed to the network, in order
    elapsed,    \* ticks since the request started
    inflight,   \* the state of the exchange on the wire
    body,       \* the body the call has read
    result      \* what the call returned

nvars == <<npc, ns, nonce, ntwice>>
cvars == <<cpc, cpr, cout>>
rvars == <<calls, pc, domains, key, timeout, headers, client, query,
           requests, elapsed, inflight, body, result>>
vars  == <<npc, ns, nonce, ntwice, cpc, cpr, cout,
           calls, pc, domains, key, timeout, headers, client, query,
           requests, elapsed, inflight, body, result>>

---------------------------------------------------------------------------
(* Bounds *)

\* longest input string of the normalisation
MaxLen == 3
\* longest response list of a converted PageRank
MaxResp == 2
\* longest domain list of a rank call
MaxDomains == 2
\* largest timeout of a rank call, in ticks
MaxTimeout == 1
\* number of concurrent rank calls
NCalls == 2

Alphabet == {"/", "a", "A"}

RECURSIVE StringsOfLen(_)
StringsOfLen(n) ==
    IF n = 0 THEN {<<>>}
    ELSE {Append(s, ch) : s \in StringsOfLen(n - 1), ch \in Alphabet}

Strings == UNION {StringsOfLen(n) : n \in 0..MaxLen}

---------------------------------------------------------------------------
(* PageRank::remove_trailing_slash *)

\* str::ends_with(char)
ends_with(s, ch) == Len(s) > 0 /\ s[Len(s)] = ch

\* String::pop
pop(s) == IF Len(s) = 0 THEN s ELSE SubSeq(s, 1, Len(s) - 1)

\* a slip: `if` for `while`, one slash removed at most
strip_one_slash(s) == IF ends_with(s, "/") THEN pop(s) ELSE s

RECURSIVE collapse_slashes(_)
\* a slip: the loop tests for two slashes, and leaves the last one
collapse_slashes(s) ==
    IF Len(s) >= 2 /\ s[Len(s)] = "/" /\ s[Len(s) - 1] = "/"
    THEN collapse_slashes(pop(s))
    ELSE s

RECURSIVE remove_trailing_slash(_)
remove_trailing_slash(s) ==
    IF ends_with(s, "/") THEN remove_trailing_slash(pop(s)) ELSE s

NormInit ==
    /\ npc = "input"
    /\ ns \in Strings
    /\ nonce = <<>>
    /\ ntwice = <<>>

NormIdle ==
    /\ npc = "off"
    /\ ns = <<>>
    /\ nonce = <<>>
    /\ ntwice = <<>>

Normalize ==
    /\ npc = "input"
    /\ nonce' = remove_trailing_slash(ns)
    /\ npc' = "once"
    /\ UNCHANGED <<ns, ntwice, cvars, rvars>>

Renormalize ==
    /\ npc = "once"
    /\ ntwice' = remove_trailing_slash(nonce)
    /\ npc' = "twice"
    /\ UNCHANGED <<ns, nonce, cvars, rvars>>

NormNext == Normalize \/ Renormalize

---------------------------------------------------------------------------
(* impl TryInto<PageRankFirst> for PageRank *)

\* Option<T>: None is <<>>, Some(x) is <<x>>
None == <<>>
Some(x) == <<x>>

\* struct Response
MkResponse(sc, err, pri, prd, rk, dom) ==
    [status_code |-> sc, error |-> err, page_rank_integer |-> pri,
     page_rank_decimal |-> prd, rank |-> rk, domain |-> dom]

\* struct PageRank
MkPageRank(sc, resp, lu) ==
    [status_code |-> sc, response |-> resp, last_updated |-> lu]

\* struct PageRankFirst
MkPageRankFirst(sc, resp, lu) ==
    [status_code |-> sc, response |-> resp, last_updated |-> lu]

\* Result<T, anyhow::Error>
Ok(v) == [tag |-> "Ok", value |-> v]
Err(e) == [tag |-> "Err", error |-> e]
Pending == [tag |-> "Pending"]
Panic(e) == [tag |-> "Panic", error |-> e]

\* Vec::get(i), i counted from 0 as in the source
get(v, i) == IF i + 1 <= Len(v) THEN Some(v[i + 1]) ELSE None

\* a slip: the last entry for the first
try_into_last(p) ==
    IF Len(p.response) > 0
    THEN Ok(MkPageRankFirst(p.status_code, p.response[Len(p.response)],
                            p.last_updated))
    ELSE Err("no response found")

\* a slip: indexing (response[0]) for get(0), which panics on an empty list
try_into_index(p) ==
    IF Len(p.response) > 0
    THEN Ok(MkPageRankFirst(p.status_code, p.response[1], p.last_updated))
    ELSE Panic("index out of bounds")

try_into(p) ==
    LET first == get(p.response, 0) IN
    IF first # None
    THEN Ok(MkPageRankFirst(p.status_code, first[1], p.last_updated))
    ELSE Err("no response found")

Responses ==
    { MkResponse(200, "", 5, 5, Some("120"), <<"a">>),
      MkResponse(404, "Domain not found", 0, 0, None, <<"b">>),
      MkResponse(200, "", 3, 3, Some("7"), <<"A">>) }

RECURSIVE SeqsOfLen(_, _)
SeqsOfLen(S, n) ==
    IF n = 0 THEN {<<>>}
    ELSE {Append(s, x) : s \in SeqsOfLen(S, n - 1), x \in S}

SeqsUpTo(S, n) == UNION {SeqsOfLen(S, k) : k \in 0..n}

PageRanks ==
    { MkPageRank(sc, resp, lu) :
        sc \in {200, 500}, resp \in SeqsUpTo(Responses, MaxResp),
        lu \in {"1st Jan 2024", ""} }

NoPageRank == MkPageRank(0, <<>>, "")

ConvInit ==
    /\ cpc = "input"
    /\ cpr \in PageRanks
    /\ cout = Pending

ConvIdle ==
    /\ cpc = "off"
    /\ cpr = NoPageRank
    /\ cout = Pending

Convert ==
    /\ cpc = "input"
    /\ cout' = try_into(cpr)
    /\ cpc' = "converted"
    /\ UNCHANGED <<cpr, nvars, rvars>>

ConvNext == Convert

---------------------------------------------------------------------------
(* PageRank::rank: data *)

API_ROOT == "https://openpagerank.com/api/v1.0/getPageRank"

\* the largest u16, the type of both status_code fields
U16Max == 65535

Procs == 1..NCalls

\* HeaderValue::from_str accepts a byte that is visible ASCII or beyond (32 and
\* up, 127 excepted) or a tab
is_valid_header_byte(b) == (b >= 32 /\ b # 127) \/ b = 9

HeaderValue_from_str(k) ==
    IF \A i \in 1..Len(k) : is_valid_header_byte(k[i])
    THEN Ok(k)
    ELSE Err("invalid header value")

\* a slip: duplicates merged (a set collected in place of a Vec)
build_query_dedup(ds) ==
    LET RECURSIVE go(_, _)
        go(i, acc) ==
            IF i > Len(ds) THEN acc
            ELSE LET q == <<"domains[]", remove_trailing_slash(ds[i])>> IN
                 IF \E j \in 1..Len(acc) : acc[j] = q
                 THEN go(i + 1, acc)
                 ELSE go(i + 1, Append(acc, q))
    IN go(1, <<>>)

\* lines 63-64: each domain normalised, then paired with the parameter name
build_query(ds) ==
    LET RECURSIVE go(_, _)
        go(i, acc) ==
            IF i > Len(ds) THEN acc
            ELSE go(i + 1,
                    Append(acc, <<"domains[]", remove_trailing_slash(ds[i])>>))
    IN go(1, <<>>)

\* a response body: bytes that are no JSON, or a JSON value (an object is a
\* record, an array a sequence, null is None and a string s is Some(s) where
\* the field is nullable)
Text == [kind |-> "text"]
Json(o) == [kind |-> "json", obj |-> o]

\* #[derive(Deserialize)] for Response: every field but the Option is required,
\* unknown fields are ignored, a status_code out of u16 is refused
entry_decodes(e) ==
    /\ {"status_code", "error", "page_rank_integer", "page_rank_decimal",
        "domain"} \subseteq DOMAIN e
    /\ e.status_code \in 0..U16Max
    /\ e.page_rank_integer >= 0

decode_entry(e) ==
    MkResponse(e.status_code, e.error, e.page_rank_integer,
               e.page_rank_decimal,
               IF "rank" \in DOMAIN e THEN e.rank ELSE None, e.domain)

RECURSIVE decode_entries(_)
decode_entries(es) ==
    IF Len(es) = 0 THEN <<>>
    ELSE <<decode_entry(Head(es))>> \o decode_entries(Tail(es))

\* #[derive(Deserialize)] for PageRank
body_decodes(b) ==
    /\ b.kind = "json"
    /\ {"status_code", "response", "last_updated"} \subseteq DOMAIN b.obj
    /\ b.obj.status_code \in 0..U16Max
    /\ \A i \in 1..Len(b.obj.response) : entry_decodes(b.obj.response[i])

\* a slip: a body whose top-level status_code is not 200 refused as an error
json_checking_status(b) ==
    IF body_decodes(b) /\ b.obj.status_code = 200
    THEN Ok(MkPageRank(b.obj.status_code, decode_entries(b.obj.response),
                       b.obj.last_updated))
    ELSE Err("error decoding response body")

\* a slip: a fallback value in place of the decode error
json_or_default(b) ==
    IF body_decodes(b)
    THEN Ok(MkPageRank(b.obj.status_code, decode_entries(b.obj.response),
                       b.obj.last_updated))
    ELSE Ok(NoPageRank)

\* Response::json::<PageRank>() on a body that was read in full
json(b) ==
    IF body_decodes(b)
    THEN Ok(MkPageRank(b.obj.status_code, decode_entries(b.obj.response),
                       b.obj.last_updated))
    ELSE Err("error decoding response body")

EntryFound == MkResponse(200, "", 5, 5, Some("120"), <<"a">>)
EntryNotFound == MkResponse(404, "Domain not found", 0, 0, None, <<"b">>)
EntryNoRankField ==
    [status_code |-> 404, error |-> "Domain not found",
     page_rank_integer |-> 0, page_rank_decimal |-> 0, domain |-> <<"b">>]

Bodies ==
    { Json(MkPageRank(200, <<EntryFound>>, "1st Jan 2024")),
      Json(MkPageRank(200, <<EntryNotFound, EntryFound>>, "1st Jan 2024")),
      Json(MkPageRank(200, <<EntryNoRankField>>, "1st Jan 2024")),
      Json([status_code |-> 500, response |-> <<>>, last_updated |-> "",
            message |-> "quota"]),
      Json([status_code |-> 200, response |-> <<EntryFound>>]),
      Json(MkPageRank(70000, <<>>, "")),
      Text }

NoBody == [kind |-> "none"]

\* keys: "key", "k\n" (a line feed, which no header value may hold), ""
Keys == { <<107, 101, 121>>, <<107, 10>>, <<>> }

Domains == { <<>>, <<"/">>, <<"a">>, <<"a", "/", "/">>, <<"A", "/", "b">> }

WideInputs ==
    [domains : SeqsUpTo(Domains, MaxDomains), key : Keys,
     timeout : 0..MaxTimeout]

ConcInputs ==
    { [domains |-> <<<<"a", "/">>>>, key |-> <<107, 101, 121>>, timeout |-> 1],
      [domains |-> <<<<"b">>, <<"b">>>>, key |-> <<107, 10>>, timeout |-> 1],
      [domains |-> << <<"A", "/", "b">>, <<"/">> >>, key |-> <<9, 107>>,
       timeout |-> 1],
      [domains |-> <<>>, key |-> <<>>, timeout |-> 0] }

NoHeaders == <<>>
NoClient == [built |-> FALSE]

---------------------------------------------------------------------------
(* PageRank::rank: one call, step by step *)

RankInitWith(active, Inputs) ==
    \E f \in [active -> Inputs] :
        /\ calls = active
        /\ pc = [c \in Procs |-> IF c \in active THEN "headers" ELSE "unused"]
        /\ domains = [c \in Procs |-> IF c \in active THEN f[c].domains ELSE <<>>]
        /\ key = [c \in Procs |-> IF c \in active THEN f[c].key ELSE <<>>]
        /\ timeout = [c \in Procs |-> IF c \in active THEN f[c].timeout ELSE 0]
        /\ headers = [c \in Procs |-> NoHeaders]
        /\ client = [c \in Procs |-> NoClient]
        /\ query = [c \in Procs |-> <<>>]
        /\ requests = [c \in Procs |-> <<>>]
        /\ elapsed = [c \in Procs |-> 0]
        /\ inflight = [c \in Procs |-> "none"]
        /\ body = [c \in Procs |-> NoBody]
        /\ result = [c \in Procs |-> Pending]

RankIdle == RankInitWith({}, WideInputs)

\* the call returns: `?` on an Err, or the final Ok(rank)
Return(c, r) ==
    /\ result' = [result EXCEPT ![c] = r]
    /\ pc' = [pc EXCEPT ![c] = "done"]

\* a slip: one header map shared by all calls (a static), the last key wins
rank_headers_shared(c) ==
    /\ pc[c] = "headers"
    /\ LET hv == HeaderValue_from_str(key[c]) IN
       IF hv.tag = "Ok"
       THEN /\ headers' = [d \in Procs |-> <<<<"API-OPR", hv.value>>>>]
            /\ pc' = [pc EXCEPT ![c] = "client"]
            /\ UNCHANGED result
       ELSE /\ Return(c, Err(hv.error))
            /\ UNCHANGED headers
    /\ UNCHANGED <<nvars, cvars, calls, domains, key, timeout, client, query, requests,
                   elapsed, inflight, body>>

\* lines 55-56: the header map, with the key under API-OPR
rank_headers(c) ==
    /\ pc[c] = "headers"
    /\ LET hv == HeaderValue_from_str(key[c]) IN
       IF hv.tag = "Ok"
       THEN /\ headers' = [headers EXCEPT ![c] = <<<<"API-OPR", hv.value>>>>]
            /\ pc' = [pc EXCEPT ![c] = "client"]
            /\ UNCHANGED result
       ELSE /\ Return(c, Err(hv.error))
            /\ UNCHANGED headers
    /\ UNCHANGED <<nvars, cvars, calls, domains, key, timeout, client, query, requests,
                   elapsed, inflight, body>>

\* lines 58-61: the client; build() fails when the TLS backend or the resolver
\* cannot be set up, which the environment decides
rank_client(c) ==
    /\ pc[c] = "client"
    /\ \E built \in BOOLEAN :
        IF built
        THEN /\ client' = [client EXCEPT ![c] =
                    [built |-> TRUE, default_headers |-> headers[c],
                     danger_accept_invalid_certs |-> TRUE]]
             /\ pc' = [pc EXCEPT ![c] = "query"]
             /\ UNCHANGED result
        ELSE /\ Return(c, Err("builder error"))
             /\ UNCHANGED client
    /\ UNCHANGED <<nvars, cvars, calls, domains, key, timeout, headers, query, requests,
                   elapsed, inflight, body>>

\* lines 63-64
rank_query(c) ==
    /\ pc[c] = "query"
    /\ query' = [query EXCEPT ![c] = build_query(domains[c])]
    /\ pc' = [pc EXCEPT ![c] = "send"]
    /\ UNCHANGED <<nvars, cvars, calls, domains, key, timeout, headers, client, requests,
                   elapsed, inflight, body, result>>

\* the request of lines 66-69
Request(c) ==
    [method |-> "GET", url |-> API_ROOT,
     headers |-> client[c].default_headers, query |-> query[c],
     timeout |-> timeout[c]]

\* a slip: the request sent without .timeout(timeout)
Deadline_unset(c) == FALSE

\* the request's timeout has elapsed (line 68)
Deadline(c) == elapsed[c] >= timeout[c]

\* lines 66-69: the request goes out, once, and the call waits at the first await
rank_send(c) ==
    /\ pc[c] = "send"
    /\ requests' = [requests EXCEPT ![c] = Append(@, Request(c))]
    /\ inflight' = [inflight EXCEPT ![c] = "pending"]
    /\ elapsed' = [elapsed EXCEPT ![c] = 0]
    /\ pc' = [pc EXCEPT ![c] = "await_send"]
    /\ UNCHANGED <<nvars, cvars, calls, domains, key, timeout, headers, client, query,
                   body, result>>

\* a slip: a failed send is tried once more
send_fails_retry(c) ==
    /\ pc[c] = "await_send"
    /\ ~Deadline(c)
    /\ IF Len(requests[c]) < 2
       THEN /\ requests' = [requests EXCEPT ![c] = Append(@, Request(c))]
            /\ UNCHANGED <<pc, result, inflight>>
       ELSE /\ inflight' = [inflight EXCEPT ![c] = "failed"]
            /\ Return(c, Err("error sending request"))
            /\ UNCHANGED requests
    /\ UNCHANGED <<nvars, cvars, calls, domains, key, timeout, headers, client, query,
                   elapsed, body>>

\* line 70: send().await? fails (connection, DNS, TLS)
send_fails(c) ==
    /\ pc[c] = "await_send"
    /\ ~Deadline(c)
    /\ inflight' = [inflight EXCEPT ![c] = "failed"]
    /\ Return(c, Err("error sending request"))
    /\ UNCHANGED <<nvars, cvars, calls, domains, key, timeout, headers, client, query,
                   requests, elapsed, body>>

\* line 70: send().await yields the response (status line and headers, of any
\* status: there is no error_for_status)
send_responds(c) ==
    /\ pc[c] = "await_send"
    /\ ~Deadline(c)
    /\ inflight' = [inflight EXCEPT ![c] = "headers"]
    /\ pc' = [pc EXCEPT ![c] = "await_json"]
    /\ UNCHANGED <<nvars, cvars, calls, domains, key, timeout, headers, client, query,
                   requests, elapsed, body, result>>

\* lines 71-72: the body is read in full and decoded
json_arrives(c) ==
    /\ pc[c] = "await_json"
    /\ ~Deadline(c)
    /\ \E b \in Bodies :
        /\ body' = [body EXCEPT ![c] = b]
        /\ Return(c, json(b))
    /\ inflight' = [inflight EXCEPT ![c] = "complete"]
    /\ UNCHANGED <<nvars, cvars, calls, domains, key, timeout, headers, client, query,
                   requests, elapsed>>

\* lines 71-72: the connection breaks while the body is read
json_fails(c) ==
    /\ pc[c] = "await_json"
    /\ ~Deadline(c)
    /\ inflight' = [inflight EXCEPT ![c] = "failed"]
    /\ Return(c, Err("error reading response body"))
    /\ UNCHANGED <<nvars, cvars, calls, domains, key, timeout, headers, client, query,
                   requests, elapsed, body>>

\* time passes for a waiting call
tick(c) ==
    /\ pc[c] \in {"await_send", "await_json"}
    /\ elapsed[c] < timeout[c]
    /\ elapsed' = [elapsed EXCEPT ![c] = @ + 1]
    /\ UNCHANGED <<nvars, cvars, calls, pc, domains, key, timeout, headers, client, query,
                   requests, inflight, body, result>>

\* line 68: the timeout ends the wait, at either await; the exchange is dropped
\* with the call's future, whatever the remote does afterwards
timeout_fires(c) ==
    /\ pc[c] \in {"await_send", "await_json"}
    /\ Deadline(c)
    /\ Return(c, Err("operation timed out"))
    /\ UNCHANGED <<nvars, cvars, calls, domains, key, timeout, headers, client, query,
                   requests, elapsed, inflight, body>>

\* the remote answers a call that has timed out: nobody reads the answer
late_response(c) ==
    /\ pc[c] = "done"
    /\ inflight[c] \in {"pending", "headers"}
    /\ inflight' = [inflight EXCEPT ![c] = "dropped"]
    /\ UNCHANGED <<nvars, cvars, calls, pc, domains, key, timeout, headers, client, query,
                   requests, elapsed, body, result>>

\* what the call itself and its timer do
RankStep(c) ==
    \/ rank_headers(c)
    \/ rank_client(c)
    \/ rank_query(c)
    \/ rank_send(c)
    \/ tick(c)
    \/ timeout_fires(c)

\* a call that was never made stands at "unused", where nothing is enabled
RankNext ==
    \E c \in Procs :
        \/ rank_headers(c)
        \/ rank_client(c)
        \/ rank_query(c)
        \/ rank_send(c)
        \/ tick(c)
        \/ timeout_fires(c)
        \/ send_fails(c)
        \/ send_responds(c)
        \/ json_arrives(c)
        \/ json_fails(c)
        \/ late_response(c)

---------------------------------------------------------------------------
(* Specifications *)

\* one call of rank, over all inputs within the bounds
Init == NormIdle /\ ConvIdle /\ RankInitWith({1}, WideInputs)
Next == RankNext
Spec == Init /\ [][Next]_vars

\* one call of rank, polled by its caller until it returns, with a running clock
FairSpec == Spec /\ \A c \in Procs : WF_vars(RankStep(c))

\* NCalls concurrent calls of rank
ConcInit == NormIdle /\ ConvIdle /\ RankInitWith(Procs, ConcInputs)
ConcSpec == ConcInit /\ [][Next]_vars

\* remove_trailing_slash, applied once and then again to its result
NormSpecInit == NormInit /\ ConvIdle /\ RankIdle
NormSpec == NormSpecInit /\ [][NormNext]_vars

\* try_into, applied to each PageRank within the bounds
ConvSpecInit == NormIdle /\ ConvInit /\ RankIdle
ConvSpec == ConvSpecInit /\ [][ConvNext]_vars

---------------------------------------------------------------------------
(* Properties of remove_trailing_slash (NormSpec) *)

NoTrailingSlash(s) == Len(s) = 0 \/ s[Len(s)] # "/"

\* the longest prefix of s that does not end in '/', stated without the loop
LongestUnslashedPrefix(s) ==
    LET k == CHOOSE n \in 0..Len(s) :
                 /\ n = 0 \/ s[n] # "/"
                 /\ \A i \in (n + 1)..Len(s) : s[i] = "/"
    IN SubSeq(s, 1, k)

\* C1: remove_trailing_slash(s) is the longest prefix of s that does not end in
\* '/': a prefix of s, character for character, with only '/' characters
\* removed after it; every longer prefix ends in '/'; a string of '/' only, or
\* the empty string, gives the empty string.
C1_LongestPrefix ==
    npc # "input" =>
        /\ Len(nonce) <= Len(ns)
        /\ \A i \in 1..Len(nonce) : nonce[i] = ns[i]
        /\ \A i \in (Len(nonce) + 1)..Len(ns) : ns[i] = "/"
        /\ NoTrailingSlash(nonce)
        /\ nonce = LongestUnslashedPrefix(ns)
        /\ (\A i \in 1..Len(ns) : ns[i] = "/") => nonce = <<>>

\* several slashes removed after a capital letter, which stays a capital
C1_Witness ==
    npc = "once" /\ ns = <<"A", "/", "/">> /\ nonce = <<"A">>

\* C10: normalising twice gives what normalising once gives, and the result
\* never ends in '/'.
C10_Idempotent ==
    /\ npc # "input" => NoTrailingSlash(nonce)
    /\ npc = "twice" => ntwice = nonce

C10_Witness ==
    npc = "twice" /\ ns = <<"a", "/", "/">> /\ ntwice = <<"a">>

---------------------------------------------------------------------------
(* Properties of try_into (ConvSpec) *)

\* C2: converting a PageRank with an empty response list fails with the error
\* "no response found": no PageRankFirst comes out, and nothing panics.
C2_EmptyFails ==
    (cpc = "converted" /\ Len(cpr.response) = 0) =>
        /\ cout.tag = "Err"
        /\ cout.error = "no response found"

C2_Witness ==
    /\ cpc = "converted"
    /\ cpr.response = <<>>
    /\ cpr.status_code = 200
    /\ cout.tag = "Err"

\* C3: converting a PageRank with at least one entry succeeds; the result holds
\* the entry at index 0, field for field, and the batch's status_code and
\* last_updated.
C3_FirstEntry ==
    (cpc = "converted" /\ Len(cpr.response) >= 1) =>
        /\ cout.tag = "Ok"
        /\ cout.value.response = cpr.response[1]
        /\ cout.value.status_code = cpr.status_code
        /\ cout.value.last_updated = cpr.last_updated

\* two different entries: the first is taken, not the second
C3_Witness ==
    /\ cpc = "converted"
    /\ Len(cpr.response) = 2
    /\ cpr.response[1] # cpr.response[2]
    /\ cout.tag = "Ok"
    /\ cout.value.response = cpr.response[1]

---------------------------------------------------------------------------
(* Properties of one call of rank (Spec, FairSpec) *)

Done(c) == c \in calls /\ pc[c] = "done"

\* the key can be a header value: no control byte but the tab, no DEL
KeyEncodable(k) ==
    \A i \in 1..Len(k) : k[i] \in (32..126) \cup {9} \cup (128..255)

\* v is what body b says, field by field, and holds nothing else
ValueIsBody(v, b) ==
    /\ DOMAIN v = {"status_code", "response", "last_updated"}
    /\ v.status_code = b.obj.status_code
    /\ v.last_updated = b.obj.last_updated
    /\ Len(v.response) = Len(b.obj.response)
    /\ \A i \in 1..Len(v.response) :
        LET r == v.response[i]
            e == b.obj.response[i]
        IN /\ DOMAIN r = {"status_code", "error", "page_rank_integer",
                          "page_rank_decimal", "rank", "domain"}
           /\ r.status_code = e.status_code
           /\ r.error = e.error
           /\ r.page_rank_integer = e.page_rank_integer
           /\ r.page_rank_decimal = e.page_rank_decimal
           /\ r.domain = e.domain
           /\ r.rank = (IF "rank" \in DOMAIN e THEN e.rank ELSE None)

\* C4: a request of rank carries one query parameter per input domain, each
\* named domains[], the i-th holding the normalised i-th domain: order kept,
\* nothing dropped, duplicated or merged.
C4_QueryPerDomain ==
    \A c \in calls : \A n \in 1..Len(requests[c]) :
        LET q == requests[c][n].query IN
        /\ Len(q) = Len(domains[c])
        /\ \A i \in 1..Len(q) :
            /\ q[i][1] = "domains[]"
            /\ q[i][2] = LongestUnslashedPrefix(domains[c][i])

\* two inputs that normalise to the same string stay two parameters
C4_Witness ==
    /\ Len(requests[1]) = 1
    /\ domains[1] = << <<"a", "/", "/">>, <<"a">> >>
    /\ requests[1][1].query = << <<"domains[]", <<"a">> >>, <<"domains[]", <<"a">> >> >>

\* C5 as claimed: every call that has returned issued exactly one request.
C5_ExactlyOne ==
    \A c \in calls : pc[c] = "done" => Len(requests[c]) = 1

\* C5, amended: a call issues at most one request, and never a second one
\* after a failure; a call that has returned issued exactly one when its key
\* was encoded and its client built, and none when one of the two failed.
C5_AtMostOne ==
    \A c \in calls :
        /\ Len(requests[c]) <= 1
        /\ pc[c] = "done" =>
            (Len(requests[c]) = 1 <=> (KeyEncodable(key[c]) /\ client[c].built))

\* a send that failed, and was not tried again
C5_Witness ==
    /\ Done(1)
    /\ result[1] = Err("error sending request")
    /\ Len(requests[1]) = 1

\* C6: rank returns Ok only when every step succeeded (key encoded, client
\* built, response received, body read and decoded), and then with the decoded
\* body; when a step fails it returns an Err and the later steps never run.
C6_AllOrError ==
    \A c \in calls :
        /\ headers[c] = NoHeaders => ~client[c].built
        /\ ~client[c].built => requests[c] = <<>>
        /\ body[c] # NoBody => inflight[c] = "complete"
        /\ ~KeyEncodable(key[c]) => headers[c] = NoHeaders
        /\ pc[c] = "done" =>
            /\ result[c].tag \in {"Ok", "Err"}
            /\ result[c].tag = "Ok" <=>
                /\ KeyEncodable(key[c])
                /\ client[c].built
                /\ Len(requests[c]) = 1
                /\ inflight[c] = "complete"
                /\ body_decodes(body[c])
            /\ result[c].tag = "Ok" => ValueIsBody(result[c].value, body[c])
        /\ pc[c] # "done" => result[c] = Pending

\* the last step failed: the body arrived and is no JSON
C6_Witness ==
    /\ Done(1)
    /\ body[1] = Text
    /\ result[1] = Err("error decoding response body")

\* C7: a body that decodes is returned as Ok, whatever status codes and error
\* texts it carries and whether or not its entries have a rank; an entry
\* without one comes back with rank None.
C7_ServiceErrorIsData ==
    \A c \in calls :
        (pc[c] = "done" /\ body[c] # NoBody /\ body_decodes(body[c])) =>
            /\ result[c].tag = "Ok"
            /\ ValueIsBody(result[c].value, body[c])
            /\ \A i \in 1..Len(body[c].obj.response) :
                ("rank" \notin DOMAIN body[c].obj.response[i]
                 \/ body[c].obj.response[i].rank = None)
                    => result[c].value.response[i].rank = None

\* a top-level 500 with no entries, returned as Ok
C7_Witness ==
    /\ Done(1)
    /\ result[1].tag = "Ok"
    /\ result[1].value.status_code = 500
    /\ result[1].value.response = <<>>

\* C8: every call returns; a call still waiting when its timeout has elapsed
\* returns an Err; and an answer that comes after the timeout changes nothing:
\* what a call returned stays as it is, and an Ok was read before the deadline.
C8_TimeoutEnds ==
    /\ \A c \in Procs : (c \in calls) ~> (pc[c] = "done")
    /\ [][\A c \in Procs :
            /\ (pc[c] \in {"await_send", "await_json"}
                /\ elapsed[c] >= timeout[c] /\ pc'[c] # pc[c])
                   => (pc'[c] = "done" /\ result'[c].tag = "Err")
            /\ pc[c] = "done" => (pc'[c] = "done" /\ result'[c] = result[c])
       ]_vars
    /\ [](\A c \in Procs : result[c].tag = "Ok" => elapsed[c] < timeout[c])

\* the call timed out and the answer came afterwards
C8_Witness ==
    /\ Done(1)
    /\ result[1] = Err("operation timed out")
    /\ inflight[1] = "dropped"

---------------------------------------------------------------------------
(* Properties of concurrent calls of rank (ConcSpec) *)

\* everything one call owns
Local(c) ==
    <<pc[c], domains[c], key[c], timeout[c], headers[c], client[c], query[c],
      requests[c], elapsed[c], inflight[c], body[c], result[c]>>

\* C9: concurrent calls share nothing: a step changes the state of one call
\* only; the request a call sends is made of its own key, domains and timeout;
\* and what it returns is decided by its own key and the answer to its own
\* request.
C9_Independent ==
    /\ [][\A c \in Procs :
            Local(c)' # Local(c) =>
                \A d \in Procs \ {c} : Local(d)' = Local(d)]_vars
    /\ [](\A c \in Procs :
            /\ \A n \in 1..Len(requests[c]) :
                /\ requests[c][n].headers = << <<"API-OPR", key[c]>> >>
                /\ requests[c][n].timeout = timeout[c]
                /\ Len(requests[c][n].query) = Len(domains[c])
                /\ \A i \in 1..Len(domains[c]) :
                    requests[c][n].query[i][2]
                        = LongestUnslashedPrefix(domains[c][i])
            /\ headers[c] \in {NoHeaders, << <<"API-OPR", key[c]>> >>}
            /\ client[c].built => client[c].default_headers = headers[c]
            /\ result[c].tag = "Ok" => ValueIsBody(result[c].value, body[c])
            /\ (pc[c] = "done" /\ ~KeyEncodable(key[c])) =>
                    result[c] = Err("invalid header value"))

\* two calls at once with different keys and domains, both sent, one returning
\* Ok and the other timing out
C9_Witness ==
    /\ Done(1) /\ Done(2)
    /\ key[1] # key[2]
    /\ domains[1] # domains[2]
    /\ Len(requests[1]) = 1 /\ Len(requests[2]) = 1
    /\ result[1].tag = "Ok"
    /\ result[2] = Err("operation timed out")

===========================================================================
